---- MODULE Spec2Model ----
(***************************************************************************)
(* Model of StreamingServer (streaming_server.py): the admission control   *)
(* of process_request, the per-connection handler handle_connection /      *)
(* handle_connection_impl, compute_and_decode, the batching loop           *)
(* stream_consumer_task, and the start-up sequence run / warmup.           *)
(*                                                                         *)
(* All coroutines run on one asyncio event loop, so a coroutine's code     *)
(* between two awaits that really suspend is one atomic action.  The only  *)
(* code that runs outside the loop is beam_search.process, in the          *)
(* nn_pool thread.                                                         *)
(*                                                                         *)
(* Frame counts are scaled down: a chunk is chunk_length frames, the       *)
(* decode threshold is chunk_length_pad frames.                            *)
(***************************************************************************)
EXTENDS FiniteSets, Integers, Sequences, TLC

\* ---------------------------------------------------------------- bounds
NumConns == 3          \* connection slots (a slot is reused after its handler ended)
MaxAudioMsgs == 2      \* binary messages all clients send in total
MaxBatchCfg == 2       \* max_batch_size is configured as 1 or as MaxBatchCfg

\* ------------------------------------------------------ program constants
chunk_length == 2
pad_length == 1
chunk_length_pad == chunk_length + pad_length
subsampling_factor == 2
WarmupFrames == 6
max_active_connections == 2

\* frames one binary message yields: fewer than the decode threshold, or
\* as many as the threshold
MsgFrames == {pad_length, chunk_length_pad}

\* frames input_finished flushes out of the feature extractor
FlushFrames == {0, chunk_length}

Conns == 1..NumConns
WarmupStream == 0
Streams == {WarmupStream} \cup Conns

VARIABLES
  serverPc,                    \* position of run(): "init", "warmup", "serving"
  schedPc,                     \* position of stream_consumer_task
  schedError,                  \* exception that ended stream_consumer_task
  stream_queue,                \* self.stream_queue: sequence of requests
  batch,                       \* local batch of stream_consumer_task
  max_batch_size,              \* self.max_batch_size
  current_active_connections,  \* self.current_active_connections
  response,                    \* value returned by the last process_request
  pc,                          \* position of each connection's handler
  open,                        \* the client's transport is still open
  exitPath,                    \* how handle_connection ended
  features,                    \* len(stream.features)
  frame_offset,                \* stream.frame_offset
  segment,                     \* stream.segment
  finished,                    \* stream input_finished() was called
  decoded,                     \* chunks decoded since beam_search.init_stream
  nput,                        \* requests the stream's owner has put so far
  taken,                       \* times the stream's latest request entered a batch
  fired,                       \* times the latest request's future got set_result
  stale,                       \* a request other than its stream's latest was
                               \* batched or had its future set
  sent,                        \* messages delivered to each client
  cycles,                      \* per connection: decode cycles issued, by phase
  audioLeft                    \* binary messages the clients may still send

vars == <<serverPc, schedPc, schedError, stream_queue, batch, max_batch_size,
          current_active_connections, response, pc, open, exitPath,
          features, frame_offset, segment, finished, decoded, nput,
          taken, fired, stale, sent, cycles, audioLeft>>

srvVars == <<serverPc, max_batch_size>>
schedVars == <<schedPc, schedError, batch>>
reqVars == <<stream_queue, nput, taken, fired>>
admVars == <<current_active_connections, response>>
streamVars == <<features, frame_offset, segment, finished, decoded>>
connVars == <<pc, open, exitPath, sent, cycles>>

Min(a, b) == IF a < b THEN a ELSE b
Max(a, b) == IF a > b THEN a ELSE b

NoCycles == [rx |-> 0, drain |-> 0, pad |-> 0]

\* A request is the pair (stream, future); the future is identified by the
\* stream and the number of the put that created it.
Req(s) == <<s, nput[s]>>
StreamOf(r) == r[1]

\* how often the latest request of stream s occurs in q
Copies(q, s) == Cardinality({i \in 1..Len(q) : q[i] = Req(s)})

\* q holds a request that is not the latest one of its stream
HasStale(q) == \E i \in 1..Len(q) : q[i] # Req(StreamOf(q[i]))

InSeq(q, s) == \E i \in 1..Len(q) : StreamOf(q[i]) = s

\* ------------------------------------------------------------ construction
\* StreamingServer.__init__, lines 369-376, and a fresh Stream per slot.
Init ==
  /\ serverPc = "init"
  /\ schedPc = "notstarted"
  /\ schedError = "none"
  /\ stream_queue = <<>>
  /\ batch = <<>>
  /\ max_batch_size \in {1, MaxBatchCfg}
  /\ current_active_connections = 0
  /\ response = "unset"
  /\ pc = [c \in Conns |-> "idle"]
  /\ open = [c \in Conns |-> FALSE]
  /\ exitPath = [c \in Conns |-> "none"]
  /\ features = [s \in Streams |-> 0]
  /\ frame_offset = [s \in Streams |-> 0]
  /\ segment = [s \in Streams |-> 0]
  /\ finished = [s \in Streams |-> FALSE]
  /\ decoded = [s \in Streams |-> 0]
  /\ nput = [s \in Streams |-> 0]
  /\ taken = [s \in Streams |-> 0]
  /\ fired = [s \in Streams |-> 0]
  /\ stale = FALSE
  /\ sent = [c \in Conns |-> <<>>]
  /\ cycles = [c \in Conns |-> NoCycles]
  /\ audioLeft = MaxAudioMsgs

\* ------------------------------------------------- pure parts of the code
\* line 395, 573, 603: the loop condition of every decode loop
DecodeReadyAtThreshold(len) == len >= chunk_length_pad
DecodeReady(len) == len > chunk_length_pad

\* line 607: n = self.chunk_length_pad - len(stream.features)
TailPaddingsNoContext(len) == chunk_length - len
TailPaddings(len) == chunk_length_pad - len

\* line 414: the assertion on a dequeued item
AssertEnoughFrames(len) == len >= chunk_length_pad

\* line 472: the admission test
AdmitOffByOne(cur) == cur <= max_active_connections
Admit(cur) == cur < max_active_connections

\* line 533: the counter after the finally clause
ReleasedNever(cur) == cur
Released(cur) == cur - 1

\* lines 584, 614: frame_offset = stream.frame_offset * stream.subsampling_factor
MsgFrameOffsetUnscaled(s) == frame_offset[s]
MsgFrameOffset(s) == frame_offset[s] * subsampling_factor

\* lines 600, 630: socket.send delivers the message to the client
SendMessageDropped(q, m) == q
SendMessage(q, m) == Append(q, m)

\* line 411: while len(batch) < self.max_batch_size, until QueueEmpty
BatchTakeAll(q) == Len(q)
BatchTake(q) == Min(Len(q), max_batch_size)

\* lines 412, 418: get_nowait takes the oldest item, batch.append keeps the order
BatchItemsNewestFirst(q, k) == [i \in 1..k |-> q[Len(q) + 1 - i]]
BatchItems(q, k) == SubSeq(q, 1, k)

\* line 412: the items get_nowait leaves in the queue after k were taken
QueueRestKeepsLast(q, k) == SubSeq(q, k, Len(q))
QueueRest(q, k) == SubSeq(q, k + 1, Len(q))

\* line 422, 432: future_list, the futures that get set_result
FutureListEmpty(b) == <<>>
FutureList(b) == b

\* Stream.add_tail_paddings(n): [padding] * n appends nothing when n <= 0
AddTailPaddings(len, n) == len + Max(n, 0)

\* beam_search.process on one stream: one chunk is consumed
ProcessedFeatures(len) == Max(len - chunk_length, 0)
ProcessedOffset(off) == off + (chunk_length \div subsampling_factor)

\* Stream.input_finished(): the feature extractor flushes its last frames
InputFinished(len, flush) == len + flush

\* Stream.endpoint_detected(): a detected endpoint starts the next segment
EndpointSegment(seg, is_final) == IF is_final THEN seg + 1 ELSE seg

\* beam_search.init_stream: a fresh decoder state, no chunk decoded
InitStream(dec) == 0

\* lines 587-588: if is_final: self.beam_search.init_stream(stream)
EndpointDecodedNoReset(dec, is_final) == dec
EndpointDecoded(dec, is_final) == IF is_final THEN InitStream(dec) ELSE dec

\* line 610: stream.features = []
ClearFeaturesKept(len) == len
ClearFeatures(len) == 0

\* lines 465-468: the status of a plain HTTP answer
HttpStatusAlwaysOk(found) == "200"
HttpStatus(found) == IF found THEN "200" ELSE "404"

\* compute_and_decode, lines 447-450: a new future, put (stream, future),
\* then await the future.  The queue is unbounded, so put never suspends.
PutRequest(s) ==
  /\ nput' = [nput EXCEPT ![s] = @ + 1]
  /\ taken' = [taken EXCEPT ![s] = 0]
  /\ fired' = [fired EXCEPT ![s] = 0]
  /\ stream_queue' = Append(stream_queue, <<s, nput[s] + 1>>)

\* the future the owner of s awaits has been set
FutureDoneNoWait(s) == nput[s] > 0
FutureDone(s) == nput[s] > 0 /\ fired[s] > 0

AwaitPcs == {"await_rx", "await_drain", "await_pad"}
LivePcs == {"accepted", "recv", "await_rx", "await_drain", "await_pad",
            "sent_final"}

\* ------------------------------------------------------------ run / warmup
\* a start-up that does not wait for the warm-up cycles
WarmupLoopSkipped(len) == serverPc' = "serving" /\ UNCHANGED reqVars

\* lines 395-396: while len(stream.features) > chunk_length_pad:
\*                    await self.compute_and_decode(stream)
WarmupLoop(len) ==
  IF DecodeReady(len)
  THEN PutRequest(WarmupStream) /\ serverPc' = "warmup"
  ELSE serverPc' = "serving" /\ UNCHANGED reqVars

\* run, lines 484-485, with warmup up to its first await (lines 385-396)
RunStart ==
  /\ serverPc = "init"
  /\ schedPc' = "check"
  /\ features' = [features EXCEPT ![WarmupStream] = WarmupFrames]
  /\ WarmupLoop(WarmupFrames)
  /\ UNCHANGED <<max_batch_size, schedError, batch, admVars, connVars,
                 frame_offset, segment, finished, decoded, stale, audioLeft>>

\* warmup resumed by its future (line 396 back to line 395), then run goes
\* on to websockets.serve (line 495) once the loop ends
WarmupResume ==
  /\ serverPc = "warmup"
  /\ FutureDone(WarmupStream)
  /\ WarmupLoop(features[WarmupStream])
  /\ UNCHANGED <<max_batch_size, schedVars, admVars, connVars, streamVars,
                 stale, audioLeft>>

\* --------------------------------------------------------- process_request
\* lines 457-470: a plain HTTP request
ProcessRequestHttp(found) ==
  /\ serverPc = "serving"
  /\ response' = HttpStatus(found)
  /\ UNCHANGED <<srvVars, schedVars, reqVars, current_active_connections,
                 connVars, streamVars, stale, audioLeft>>

\* lines 472-481: an upgrade request.  c is the first slot no live handler
\* uses; when the request is admitted the new connection takes it.
ProcessRequestUpgrade(c) ==
  /\ serverPc = "serving"
  /\ pc[c] = "idle"
  /\ \A d \in Conns : d < c => pc[d] # "idle"
  /\ IF Admit(current_active_connections)
     THEN /\ current_active_connections' = current_active_connections + 1
          /\ response' = "None"
          /\ pc' = [pc EXCEPT ![c] = "accepted"]
          /\ open' = [open EXCEPT ![c] = TRUE]
          /\ exitPath' = [exitPath EXCEPT ![c] = "none"]
          /\ UNCHANGED <<sent, cycles>>
     ELSE /\ response' = "503"
          /\ UNCHANGED <<current_active_connections, connVars>>
  /\ UNCHANGED <<srvVars, schedVars, reqVars, streamVars, stale, audioLeft>>

\* ------------------------------------------------------- handle_connection
\* lines 531-533: the finally clause, on every way out of the handler; the
\* handler's Stream and locals are gone and the slot is free again
Terminate(c, how) ==
  /\ current_active_connections' = Released(current_active_connections)
  /\ pc' = [pc EXCEPT ![c] = "idle"]
  /\ exitPath' = [exitPath EXCEPT ![c] = how]
  /\ open' = [open EXCEPT ![c] = FALSE]
  /\ sent' = [sent EXCEPT ![c] = <<>>]
  /\ cycles' = [cycles EXCEPT ![c] = NoCycles]
  /\ features' = [features EXCEPT ![c] = 0]
  /\ frame_offset' = [frame_offset EXCEPT ![c] = 0]
  /\ segment' = [segment EXCEPT ![c] = 0]
  /\ finished' = [finished EXCEPT ![c] = FALSE]
  /\ decoded' = [decoded EXCEPT ![c] = 0]
  /\ nput' = [nput EXCEPT ![c] = 0]
  /\ taken' = [taken EXCEPT ![c] = 0]
  /\ fired' = [fired EXCEPT ![c] = 0]

\* what a terminating handler leaves alone
TerminateFrame ==
  UNCHANGED <<srvVars, schedVars, stream_queue, response, stale, audioLeft>>

\* lines 556-562: the handler starts: a new Stream and init_stream
HandlerStart(c) ==
  /\ pc[c] = "accepted"
  /\ pc' = [pc EXCEPT ![c] = "recv"]
  /\ features' = [features EXCEPT ![c] = 0]
  /\ frame_offset' = [frame_offset EXCEPT ![c] = 0]
  /\ segment' = [segment EXCEPT ![c] = 0]
  /\ finished' = [finished EXCEPT ![c] = FALSE]
  /\ decoded' = [decoded EXCEPT ![c] = 0]
  /\ nput' = [nput EXCEPT ![c] = 0]
  /\ taken' = [taken EXCEPT ![c] = 0]
  /\ fired' = [fired EXCEPT ![c] = 0]
  /\ UNCHANGED <<srvVars, schedVars, stream_queue, admVars, open, exitPath,
                 sent, cycles, stale, audioLeft>>

\* a disconnect that cancels the handler: its request leaves the queue and
\* the finally clause runs at once
ClientDisconnectCancels(c) ==
  /\ pc[c] \in {"recv"} \cup AwaitPcs
  /\ open[c]
  /\ stream_queue' = SelectSeq(stream_queue, LAMBDA r : StreamOf(r) # c)
  /\ Terminate(c, "closed")
  /\ UNCHANGED <<srvVars, schedVars, response, stale, audioLeft>>

\* the client goes away without "Done", while the handler waits in recv or
\* for a decode cycle (the handler sees it at its next recv or send only)
ClientDisconnect(c) ==
  /\ pc[c] \in {"recv"} \cup AwaitPcs
  /\ open[c]
  /\ open' = [open EXCEPT ![c] = FALSE]
  /\ UNCHANGED <<srvVars, schedVars, reqVars, admVars, pc, exitPath, sent,
                 cycles, streamVars, stale, audioLeft>>

\* lines 573-574: the loop test of the receiving loop
RxLoop(c, len) ==
  IF DecodeReady(len)
  THEN /\ PutRequest(c)
       /\ pc' = [pc EXCEPT ![c] = "await_rx"]
       /\ cycles' = [cycles EXCEPT ![c].rx = @ + 1]
  ELSE /\ pc' = [pc EXCEPT ![c] = "recv"]
       /\ UNCHANGED <<reqVars, cycles>>

\* lines 578-598: the message of one decode cycle of the receiving loop
CycleMessageSegmentAfter(c, is_final) ==
  [kind |-> "rx", segment |-> EndpointSegment(segment[c], is_final),
   frame_offset |-> MsgFrameOffset(c), final |-> is_final]
CycleMessage(c, is_final) ==
  [kind |-> "rx", segment |-> segment[c],
   frame_offset |-> MsgFrameOffset(c), final |-> is_final]

\* lines 612-628: the last message of the connection
FinalMessageNotFinal(c) ==
  [kind |-> "final", segment |-> segment[c],
   frame_offset |-> MsgFrameOffset(c), final |-> FALSE]
FinalMessage(c) ==
  [kind |-> "final", segment |-> segment[c],
   frame_offset |-> MsgFrameOffset(c), final |-> TRUE]

\* lines 612-630: the last message is built and sent; send raises
\* ConnectionClosed when the client is gone
SendLast(c) ==
  IF open[c]
  THEN /\ sent' = [sent EXCEPT ![c] = SendMessage(@, FinalMessage(c))]
       /\ pc' = [pc EXCEPT ![c] = "sent_final"]
       /\ UNCHANGED <<reqVars, cycles, current_active_connections, exitPath,
                      open, frame_offset, segment, decoded>>
  ELSE /\ Terminate(c, "closed")
       /\ UNCHANGED stream_queue

\* lines 602-630, from input_finished or the loop test at line 603 to the
\* next await: a drain cycle, or the padded cycle, or the last message
DrainLoop(c, len) ==
  IF DecodeReady(len)
  THEN /\ PutRequest(c)
       /\ features' = [features EXCEPT ![c] = len]
       /\ finished' = [finished EXCEPT ![c] = TRUE]
       /\ pc' = [pc EXCEPT ![c] = "await_drain"]
       /\ cycles' = [cycles EXCEPT ![c].drain = @ + 1]
       /\ UNCHANGED <<current_active_connections, exitPath, open, sent,
                      frame_offset, segment, decoded>>
  ELSE IF len > 0
  THEN /\ PutRequest(c)
       /\ features' = [features EXCEPT ![c] = AddTailPaddings(len, TailPaddings(len))]
       /\ finished' = [finished EXCEPT ![c] = TRUE]
       /\ pc' = [pc EXCEPT ![c] = "await_pad"]
       /\ cycles' = [cycles EXCEPT ![c].pad = @ + 1]
       /\ UNCHANGED <<current_active_connections, exitPath, open, sent,
                      frame_offset, segment, decoded>>
  ELSE /\ SendLast(c)
       /\ IF open[c]
          THEN /\ features' = [features EXCEPT ![c] = len]
               /\ finished' = [finished EXCEPT ![c] = TRUE]
          ELSE TRUE

\* lines 565-574: recv returns a binary message that yields k frames
RecvAudio(c, k) ==
  /\ pc[c] = "recv"
  /\ open[c]
  /\ audioLeft > 0
  /\ audioLeft' = audioLeft - 1
  /\ features' = [features EXCEPT ![c] = @ + k]
  /\ RxLoop(c, features[c] + k)
  /\ UNCHANGED <<srvVars, schedVars, admVars, open, exitPath, sent,
                 frame_offset, segment, finished, decoded, stale>>

\* lines 565-567 and 602-630: recv returns "Done"; input_finished flushes
\* the feature extractor, which yields flush more frames
RecvDone(c, flush) ==
  /\ pc[c] = "recv"
  /\ open[c]
  /\ DrainLoop(c, InputFinished(features[c], flush))
  /\ UNCHANGED <<srvVars, schedVars, response, stale, audioLeft>>

\* line 565 raises ConnectionClosed: lines 529-533
RecvClosed(c) ==
  /\ pc[c] = "recv"
  /\ ~open[c]
  /\ Terminate(c, "closed")
  /\ TerminateFrame

\* lines 648-661: a text message other than "Done" makes frombuffer raise;
\* the exception is not caught at line 529 but the finally clause runs
RecvInvalid(c) ==
  /\ pc[c] = "recv"
  /\ open[c]
  /\ Terminate(c, "error")
  /\ TerminateFrame

\* lines 574-600 and the loop test at line 573: resumed by the future, the
\* handler builds the message, runs endpoint detection
\* (Stream.endpoint_detected, beam_search.init_stream) and sends
ResumeRx(c, is_final) ==
  /\ pc[c] = "await_rx"
  /\ FutureDone(c)
  /\ IF open[c]
     THEN /\ sent' = [sent EXCEPT ![c] = SendMessage(@, CycleMessage(c, is_final))]
          /\ segment' = [segment EXCEPT ![c] = EndpointSegment(@, is_final)]
          /\ decoded' = [decoded EXCEPT ![c] = EndpointDecoded(@, is_final)]
          /\ RxLoop(c, features[c])
          /\ UNCHANGED <<current_active_connections, exitPath, open, features,
                         frame_offset, finished>>
     ELSE /\ Terminate(c, "closed")
          /\ UNCHANGED stream_queue
  /\ UNCHANGED <<srvVars, schedVars, response, stale, audioLeft>>

\* line 604 resumed, back to the loop test at line 603
ResumeDrain(c) ==
  /\ pc[c] = "await_drain"
  /\ FutureDone(c)
  /\ DrainLoop(c, features[c])
  /\ UNCHANGED <<srvVars, schedVars, response, stale, audioLeft>>

\* lines 609-630: the padded cycle is over, the buffer is cleared and the
\* last message sent
ResumePad(c) ==
  /\ pc[c] = "await_pad"
  /\ FutureDone(c)
  /\ SendLast(c)
  /\ IF open[c]
     THEN /\ features' = [features EXCEPT ![c] = ClearFeatures(@)]
          /\ UNCHANGED finished
     ELSE TRUE
  /\ UNCHANGED <<srvVars, schedVars, response, stale, audioLeft>>

\* line 630 returns and handle_connection_impl ends: lines 531-533
HandlerReturn(c) ==
  /\ pc[c] = "sent_final"
  /\ Terminate(c, "normal")
  /\ TerminateFrame

\* ---------------------------------------------------- stream_consumer_task
\* lines 405-407: the queue is empty, sleep max_wait_ms
SchedSleep ==
  /\ schedPc = "check"
  /\ stream_queue = <<>>
  /\ schedPc' = "sleep"
  /\ UNCHANGED <<srvVars, schedError, batch, reqVars, admVars, connVars,
                 streamVars, stale, audioLeft>>

\* a sleep that an arriving request ends early: the batch is formed at once
SchedWakeOnArrival ==
  /\ schedPc = "sleep"
  /\ IF stream_queue = <<>>
     THEN /\ schedPc' = "check"
          /\ UNCHANGED <<batch, stream_queue, taken>>
     ELSE LET k == BatchTake(stream_queue)
              b == BatchItems(stream_queue, k)
          IN /\ batch' = b
             /\ stream_queue' = QueueRest(stream_queue, k)
             /\ taken' = [s \in Streams |-> taken[s] + Copies(b, s)]
             /\ schedPc' = "executor"
  /\ UNCHANGED <<srvVars, schedError, nput, fired, admVars, connVars,
                 streamVars, stale, audioLeft>>

\* line 406 returns, continue to line 404
SchedWake ==
  /\ schedPc = "sleep"
  /\ schedPc' = "check"
  /\ UNCHANGED <<srvVars, schedError, batch, reqVars, admVars, connVars,
                 streamVars, stale, audioLeft>>

\* line 414 on the first k items of the queue: the position of the first
\* item that fails the assertion, 0 when none does
FirstShort(q, k) ==
  LET bad == {i \in 1..k : ~AssertEnoughFrames(features[StreamOf(q[i])])}
  IN IF bad = {} THEN 0 ELSE CHOOSE i \in bad : \A j \in bad : i <= j

\* lines 409-430: the batch is formed with get_nowait and handed to nn_pool.
\* An item that fails the assertion has already left the queue; the
\* AssertionError ends the task.
SchedFormBatch ==
  /\ schedPc = "check"
  /\ stream_queue # <<>>
  /\ LET k == BatchTake(stream_queue)
         j == FirstShort(stream_queue, k)
         b == IF j = 0 THEN BatchItems(stream_queue, k)
              ELSE BatchItems(stream_queue, j - 1)
     IN /\ batch' = b
        /\ stream_queue' = QueueRest(stream_queue, IF j = 0 THEN k ELSE j)
        /\ taken' = [s \in Streams |-> taken[s] + Copies(b, s)]
        /\ stale' = (stale \/ HasStale(b))
        /\ schedPc' = IF j = 0 THEN "executor" ELSE "dead"
        /\ schedError' = IF j = 0 THEN schedError ELSE "AssertionError"
  /\ UNCHANGED <<srvVars, nput, fired, admVars, connVars, streamVars,
                 audioLeft>>

\* a scheduler that does not wait for the executor: the batch is processed
\* but the loop goes on to the next batch without notifying
ExecProcessDetached ==
  /\ schedPc = "executor"
  /\ features' = [s \in Streams |->
                    IF InSeq(batch, s) THEN ProcessedFeatures(features[s])
                    ELSE features[s]]
  /\ frame_offset' = [s \in Streams |->
                        IF InSeq(batch, s) THEN ProcessedOffset(frame_offset[s])
                        ELSE frame_offset[s]]
  /\ decoded' = [s \in Streams |->
                   IF InSeq(batch, s) THEN decoded[s] + 1 ELSE decoded[s]]
  /\ schedPc' = "check"
  /\ UNCHANGED <<srvVars, schedError, batch, reqVars, admVars, connVars,
                 segment, finished, stale, audioLeft>>

\* lines 425-430: beam_search.process runs in the nn_pool thread and returns;
\* every stream of the batch has one chunk consumed
ExecProcess ==
  /\ schedPc = "executor"
  /\ features' = [s \in Streams |->
                    IF InSeq(batch, s) THEN ProcessedFeatures(features[s])
                    ELSE features[s]]
  /\ frame_offset' = [s \in Streams |->
                        IF InSeq(batch, s) THEN ProcessedOffset(frame_offset[s])
                        ELSE frame_offset[s]]
  /\ decoded' = [s \in Streams |->
                   IF InSeq(batch, s) THEN decoded[s] + 1 ELSE decoded[s]]
  /\ schedPc' = "executed"
  /\ UNCHANGED <<srvVars, schedError, batch, reqVars, admVars, connVars,
                 segment, finished, stale, audioLeft>>

\* lines 425-430: beam_search.process raises; the await re-raises in
\* stream_consumer_task, which has no handler: the task ends
ExecFail ==
  /\ schedPc = "executor"
  /\ schedPc' = "dead"
  /\ schedError' = "InferenceError"
  /\ UNCHANGED <<srvVars, batch, reqVars, admVars, connVars, streamVars,
                 stale, audioLeft>>

\* lines 432-434: set_result on every future of the batch, back to line 404
SchedNotify ==
  /\ schedPc = "executed"
  /\ fired' = [s \in Streams |-> fired[s] + Copies(FutureList(batch), s)]
  /\ stale' = (stale \/ HasStale(FutureList(batch)))
  /\ batch' = <<>>
  /\ schedPc' = "check"
  /\ UNCHANGED <<srvVars, schedError, stream_queue, nput, taken, admVars,
                 connVars, streamVars, audioLeft>>

SchedulerNext ==
  \/ SchedSleep
  \/ SchedWake
  \/ SchedFormBatch
  \/ ExecProcess
  \/ SchedNotify

HandlerNext(c) ==
  \/ HandlerStart(c)
  \/ \E k \in MsgFrames : RecvAudio(c, k)
  \/ \E flush \in FlushFrames : RecvDone(c, flush)
  \/ RecvClosed(c)
  \/ RecvInvalid(c)
  \/ \E is_final \in BOOLEAN : ResumeRx(c, is_final)
  \/ ResumeDrain(c)
  \/ ResumePad(c)
  \/ HandlerReturn(c)

Next ==
  \/ RunStart
  \/ WarmupResume
  \/ \E found \in BOOLEAN : ProcessRequestHttp(found)
  \/ \E c \in Conns : ProcessRequestUpgrade(c)
  \/ \E c \in Conns : ClientDisconnect(c)
  \/ \E c \in Conns : HandlerNext(c)
  \/ SchedulerNext
  \/ ExecFail

Spec == Init /\ [][Next]_vars

\* The event loop runs every task that is ready: the scheduler task steps
\* whenever it can (a sleep ends, a non-empty queue is drained, a batch that
\* returned is notified), and a coroutine whose future is set is resumed.  No
\* fairness is assumed of clients or of a failing inference call.
FairSpec ==
  /\ Spec
  /\ WF_vars(SchedulerNext)
  /\ WF_vars(WarmupResume)
  /\ \A c \in Conns :
       WF_vars((\E f \in BOOLEAN : ResumeRx(c, f)) \/ ResumeDrain(c) \/ ResumePad(c))

\* ------------------------------------------------------------------ claims
Outstanding(s) == InSeq(stream_queue, s) \/ InSeq(batch, s)
Suspended(s) == IF s = WarmupStream THEN serverPc = "warmup"
                ELSE pc[s] \in AwaitPcs
Live(c) == pc[c] \in LivePcs

\* C1: every (stream, future) pair put on stream_queue is taken into exactly
\* one batch and its future is set exactly once: while its owner waits the
\* pair is either still queued or was appended to a batch exactly once (never
\* lost, never in two batches), its future is set at most once and only after
\* it was batched, and an owner that has gone on past its await had the
\* future set exactly once.
C1_ExactlyOnce ==
  /\ ~stale
  /\ ~HasStale(stream_queue)
  /\ ~HasStale(batch)
  /\ \A s \in Streams :
       nput[s] > 0 =>
         /\ Copies(stream_queue, s) + taken[s] = 1
         /\ Copies(batch, s) = taken[s] - fired[s]
         /\ fired[s] <= taken[s]
         /\ ~Suspended(s) => (taken[s] = 1 /\ fired[s] = 1)

\* two sessions had their futures set and neither has resumed yet
C1_Witness ==
  \E c, d \in Conns :
    /\ c # d
    /\ pc[c] \in AwaitPcs /\ fired[c] = 1
    /\ pc[d] \in AwaitPcs /\ fired[d] = 1

\* C2: when the batch inference call has failed, the future of every request
\* of the failed batch has been set (the handlers of the batch are resumed).
C2_FailedBatchFires ==
  schedError = "InferenceError" =>
    \A i \in 1..Len(batch) : fired[StreamOf(batch[i])] >= 1

\* C3 as claimed: in every phase, a handler that waits for a decode cycle has
\* sent a message for every earlier cycle of its connection.
C3_AlternateAllPhases ==
  \A c \in Conns : pc[c] \in AwaitPcs => nput[c] = Len(sent[c]) + 1

\* C3 as amended: a handler puts a request only when the future of its
\* previous request has been set; in the receiving loop cycles and messages
\* alternate strictly; in the draining phase no message is sent between the
\* cycles, so only the cycles of the receiving loop have a message each.
C3_IssueAfterFired ==
  \A c \in Conns :
    (nput'[c] = nput[c] + 1 /\ nput[c] > 0) => fired[c] = 1

C3_Phases ==
  \A c \in Conns :
    /\ nput[c] = cycles[c].rx + cycles[c].drain + cycles[c].pad
    /\ pc[c] = "await_rx" =>
         (Len(sent[c]) + 1 = cycles[c].rx /\ cycles[c].drain + cycles[c].pad = 0)
    /\ pc[c] = "recv" =>
         (Len(sent[c]) = cycles[c].rx /\ cycles[c].drain + cycles[c].pad = 0)
    /\ pc[c] \in {"await_drain", "await_pad"} => Len(sent[c]) = cycles[c].rx
    /\ pc[c] = "sent_final" => Len(sent[c]) = cycles[c].rx + 1

C3_Alternate == [][C3_Phases' /\ C3_IssueAfterFired]_vars

\* a handler waits for the padded cycle after a drain cycle and after two
\* cycles of the receiving loop
C3_Witness ==
  \E c \in Conns :
    /\ pc[c] = "await_pad"
    /\ cycles[c].drain = 1
    /\ cycles[c].rx = 2
    /\ Len(sent[c]) = 2

\* C4: while a stream's request is in stream_queue or in the batch, the
\* stream's owner is suspended on the request's future, which is not set, so
\* it does not touch the stream; the stream's fields change only by the
\* executor's processing of the batch.
C4_OwnerSuspended ==
  \A s \in Streams : Outstanding(s) => (Suspended(s) /\ fired[s] = 0)

C4_OnlyExecutorTouches ==
  \A s \in Streams :
    (Outstanding(s) /\ Outstanding(s)' /\ schedPc # "executor") =>
      /\ features'[s] = features[s]
      /\ frame_offset'[s] = frame_offset[s]
      /\ segment'[s] = segment[s]
      /\ decoded'[s] = decoded[s]
      /\ finished'[s] = finished[s]

C4_NoConcurrentTouch == [][C4_OwnerSuspended' /\ C4_OnlyExecutorTouches]_vars

\* the executor works on a batch of two sessions' streams
C4_Witness ==
  /\ schedPc = "executor"
  /\ Len(batch) = 2
  /\ \A i \in 1..2 : StreamOf(batch[i]) \in Conns

\* C5: a step of process_request for an upgrade either finds the counter
\* below the cap, increments it and returns None, or finds it at the cap,
\* returns 503 and leaves it; the counter changes otherwise only by a
\* handler's end, and it never exceeds the cap.
C5_Step ==
  (current_active_connections' # current_active_connections
     \/ response' # response) =>
    \/ /\ response' \in {"200", "404"}
       /\ current_active_connections' = current_active_connections
    \/ /\ current_active_connections < max_active_connections
       /\ current_active_connections' = current_active_connections + 1
       /\ response' = "None"
    \/ /\ current_active_connections >= max_active_connections
       /\ current_active_connections' = current_active_connections
       /\ response' = "503"
    \/ /\ current_active_connections' = current_active_connections - 1
       /\ response' = response

C5_Admission ==
  [][C5_Step /\ current_active_connections' <= max_active_connections]_vars

\* an upgrade was refused while max_active_connections handlers are live
C5_Witness ==
  /\ response = "503"
  /\ current_active_connections = max_active_connections
  /\ Cardinality({c \in Conns : Live(c)}) = max_active_connections

\* C6: the counter is the number of accepted connections whose handler has
\* not ended, on every exit path, and never negative.
C6_CounterIsLive ==
  /\ current_active_connections = Cardinality({c \in Conns : Live(c)})
  /\ current_active_connections >= 0

\* one handler ended after "Done", another on a closed transport
C6_Witness ==
  /\ current_active_connections = 0
  /\ \E c, d \in Conns :
       /\ pc[c] = "idle" /\ exitPath[c] = "normal"
       /\ pc[d] = "idle" /\ exitPath[d] = "closed"

\* C7: under the event loop's fairness, a request that was put has its future
\* set unless an inference call fails, and a handler whose future is set is
\* resumed.
C7_EventuallyFired ==
  /\ \A s \in Streams :
       (nput[s] > 0 /\ fired[s] = 0) ~> (fired[s] = 1 \/ schedPc = "dead")
  /\ \A c \in Conns :
       (pc[c] \in AwaitPcs /\ fired[c] = 1) ~> ~(pc[c] \in AwaitPcs /\ fired[c] = 1)

\* a drained request's future is set while another one still waits in the queue
C7_Witness ==
  \E c, d \in Conns :
    /\ pc[c] \in AwaitPcs /\ fired[c] = 1
    /\ InSeq(stream_queue, d)

\* C8: after a batch's inference call failed, a request that is in the queue
\* is still drained and its future set.
C8_LaterBatchesUnaffected ==
  \A c \in Conns :
    (schedError = "InferenceError" /\ InSeq(stream_queue, c)) ~> (fired[c] = 1)

\* C9 as claimed: every message's frame_offset is one chunk more than the
\* previous message's, the last message included.
C9_OneChunkPerMessage ==
  \A c \in Conns : \A i \in 2..Len(sent[c]) :
    sent[c][i].frame_offset = sent[c][i - 1].frame_offset + chunk_length

\* C9 as amended: frame_offset never decreases; a message of the receiving
\* loop is one chunk after the previous message; the last message is after
\* the previous one by one chunk for every decode cycle of the draining
\* phase, which is at least one chunk.
C9_FrameOffsets ==
  \A c \in Conns : \A i \in 1..Len(sent[c]) :
    LET prev == IF i = 1 THEN 0 ELSE sent[c][i - 1].frame_offset
        this == sent[c][i].frame_offset
    IN /\ this >= prev
       /\ sent[c][i].kind = "rx" => this = prev + chunk_length
       /\ sent[c][i].kind = "final" =>
            /\ this = prev + chunk_length * (cycles[c].drain + cycles[c].pad)
            /\ i > 1 => this >= prev + chunk_length

\* the last message follows a message of the receiving loop by two chunks
C9_Witness ==
  \E c \in Conns :
    /\ pc[c] = "sent_final"
    /\ Len(sent[c]) = 2
    /\ sent[c][2].frame_offset = sent[c][1].frame_offset + 2 * chunk_length

\* C10: every request in the queue, and every request of a batch handed to
\* the executor, refers to a stream with at least chunk_length_pad frames;
\* the assertion of stream_consumer_task never fails.
C10_EnoughFrames ==
  /\ schedError # "AssertionError"
  /\ \A i \in 1..Len(stream_queue) :
       features[StreamOf(stream_queue[i])] >= chunk_length_pad
  /\ schedPc = "executor" =>
       \A i \in 1..Len(batch) : features[StreamOf(batch[i])] >= chunk_length_pad

\* the scheduler handed over a padded final cycle that needed padding
C10_Witness ==
  \E c \in Conns :
    /\ schedPc = "executor"
    /\ InSeq(batch, c)
    /\ pc[c] = "await_pad"
    /\ features[c] = chunk_length_pad
    /\ frame_offset[c] = 0

\* C11: every batch handed to the executor holds at least one request and at
\* most max_batch_size requests.
C11_BatchSize ==
  schedPc \in {"executor", "executed"} =>
    (Len(batch) >= 1 /\ Len(batch) <= max_batch_size)

\* a full batch of MaxBatchCfg requests is with the executor
C11_Witness ==
  /\ schedPc = "executor"
  /\ max_batch_size = MaxBatchCfg
  /\ Len(batch) = max_batch_size

LastSent(c) == sent[c][Len(sent[c])]

\* C12: a message of the receiving loop carries final = the endpoint
\* detector's answer for that decode cycle; the last message of a connection
\* carries final = TRUE; the last message is the only one that is not a
\* message of the receiving loop.
C12_Kinds ==
  \A c \in Conns : \A i \in 1..Len(sent[c]) :
    /\ sent[c][i].kind = "final" <=> (i = Len(sent[c]) /\ pc[c] = "sent_final")
    /\ sent[c][i].kind = "final" => sent[c][i].final
    /\ sent[c][i].kind \in {"rx", "final"}

C12_Step ==
  \A c \in Conns :
    /\ \A f \in BOOLEAN :
         (ResumeRx(c, f) /\ open[c]) =>
           /\ Len(sent'[c]) = Len(sent[c]) + 1
           /\ LastSent(c)'.kind = "rx"
           /\ LastSent(c)'.final = f
    /\ (pc[c] # "sent_final" /\ pc'[c] = "sent_final") =>
         /\ Len(sent'[c]) = Len(sent[c]) + 1
         /\ LastSent(c)'.final

C12_FinalFlag == [][C12_Kinds' /\ C12_Step]_vars

\* a connection ended with three messages: no endpoint, an endpoint, the last
C12_Witness ==
  \E c \in Conns :
    /\ pc[c] = "sent_final"
    /\ Len(sent[c]) = 3
    /\ ~sent[c][1].final /\ sent[c][2].final /\ sent[c][3].final

\* C13: when the endpoint detector fires after a decode cycle the segment
\* index grows and the decoder state is re-initialised before the next decode
\* cycle of the stream is issued; within a session segment never decreases.
C13_ResetBeforeNextCycle ==
  \A c \in Conns :
    (/\ InSeq(stream_queue, c)
     /\ pc[c] = "await_rx"
     /\ Len(sent[c]) > 0
     /\ LastSent(c).final) => decoded[c] = 0

C13_Step ==
  \A c \in Conns :
    /\ pc'[c] # "idle" => segment'[c] >= segment[c]
    /\ (ResumeRx(c, TRUE) /\ open[c]) =>
         /\ segment'[c] > segment[c]
         /\ decoded[c] > 0
         /\ decoded'[c] = 0

C13_SegmentAndReset == [][C13_ResetBeforeNextCycle' /\ C13_Step]_vars

\* the next decode cycle of a stream is queued after an endpoint
C13_Witness ==
  \E c \in Conns :
    /\ InSeq(stream_queue, c)
    /\ pc[c] = "await_rx"
    /\ Len(sent[c]) = 1
    /\ LastSent(c).final
    /\ segment[c] = 1

DrainPcs == {"await_drain", "await_pad", "sent_final"}

\* C14: after "Done" the handler reads no further audio and sends exactly one
\* more message; that message has final = TRUE, is the last message of the
\* connection, and is sent with an empty frame buffer; with the transport open
\* and the decode cycles completing, it is eventually sent.
C14_AfterDone ==
  \A c \in Conns :
    /\ finished[c] => pc[c] \in DrainPcs
    /\ pc[c] \in {"await_drain", "await_pad"} =>
         (finished[c] /\ Len(sent[c]) = cycles[c].rx)
    /\ pc[c] = "sent_final" =>
         /\ finished[c]
         /\ features[c] = 0
         /\ Len(sent[c]) = cycles[c].rx + 1
         /\ LastSent(c).kind = "final"
         /\ LastSent(c).final

C14_Step ==
  \A c \in Conns :
    /\ (finished'[c] /\ sent'[c] # sent[c]) =>
         /\ pc[c] # "sent_final"
         /\ pc'[c] = "sent_final"
         /\ sent'[c] = Append(sent[c], LastSent(c)')
         /\ features'[c] = 0
    /\ pc[c] = "sent_final" => pc'[c] \in {"sent_final", "idle"}

C14_EndOfInput ==
  /\ [][C14_AfterDone' /\ C14_Step]_vars
  /\ \A c \in Conns :
       finished[c] ~> (pc[c] = "sent_final" \/ ~open[c] \/ schedPc = "dead")

\* the last message was sent after one drain cycle and the padded cycle
C14_Witness ==
  \E c \in Conns :
    /\ pc[c] = "sent_final"
    /\ cycles[c].drain = 1
    /\ cycles[c].pad = 1
    /\ features[c] = 0
    /\ LastSent(c).final

Gone(c) == pc[c] \in AwaitPcs /\ ~open[c]
Resumes(c) == pc'[c] # pc[c] \/ nput'[c] # nput[c]

\* C15 as claimed: a handler whose client is gone ends when it is resumed.
C15_ResumeTerminates ==
  [][\A c \in Conns : (Gone(c) /\ Resumes(c)) => pc'[c] = "idle"]_vars

\* C15 as amended: a client that disconnects while its handler waits for a
\* decode cycle leaves the request where it is; the request leaves the queue
\* and the batch only by having its future set; the handler sends nothing
\* more and is resumed only after the future was set.  Resumed in the
\* receiving loop or after the padded cycle it ends and releases its slot
\* once; resumed in the drain loop it first issues the remaining decode
\* cycles.  Under the event loop's fairness it ends unless the scheduler task
\* has ended.
C15_DisconnectStep ==
  \A c \in Conns :
    (pc[c] \in AwaitPcs /\ open[c] /\ ~open'[c]) =>
      /\ pc'[c] = pc[c]
      /\ UNCHANGED <<stream_queue, batch, nput, taken, fired>>
      /\ UNCHANGED current_active_connections

C15_GoneStep ==
  \A c \in Conns :
    Gone(c) =>
      /\ Len(sent'[c]) <= Len(sent[c])
      /\ (Outstanding(c) /\ ~Outstanding(c)') =>
           (fired'[c] = 1 /\ ~Resumes(c))
      /\ ~Resumes(c) => (Live(c)' /\ sent'[c] = sent[c])
      /\ Resumes(c) =>
           /\ fired[c] = 1
           /\ ~Outstanding(c)
           /\ \/ /\ pc'[c] = "idle"
                 /\ exitPath'[c] = "closed"
                 /\ current_active_connections' = current_active_connections - 1
              \/ /\ pc[c] = "await_drain"
                 /\ pc'[c] \in {"await_drain", "await_pad"}
                 /\ nput'[c] = nput[c] + 1
                 /\ Gone(c)'
                 /\ UNCHANGED current_active_connections

C15_DisconnectMidCycle ==
  /\ [][C15_DisconnectStep /\ C15_GoneStep]_vars
  /\ \A c \in Conns : Gone(c) ~> (pc[c] = "idle" \/ schedPc = "dead")

\* a handler whose client is gone waits for the padded cycle it issued after
\* a drain cycle
C15_Witness ==
  \E c \in Conns :
    /\ Gone(c)
    /\ pc[c] = "await_pad"
    /\ cycles[c].drain = 1
    /\ fired[c] = 1
    /\ ~Outstanding(c)

RxMessages(c) == {i \in 1..Len(sent[c]) : sent[c][i].kind = "rx"}

\* C16 as claimed: a session that ended after "Done" has sent one message per
\* decode cycle it issued, in whatever phase, and one last message.
C16_MessagePerCycle ==
  \A c \in Conns : pc[c] = "sent_final" => Len(sent[c]) = nput[c] + 1

\* C16 as amended: a session that ended after "Done" has sent one message per
\* decode cycle of the receiving loop, none for the cycles of the draining
\* phase, and one last message.
C16_MessageCount ==
  \A c \in Conns :
    /\ Cardinality(RxMessages(c)) = cycles[c].rx - (IF pc[c] = "await_rx" THEN 1 ELSE 0)
    /\ pc[c] = "sent_final" =>
         /\ nput[c] = cycles[c].rx + cycles[c].drain + cycles[c].pad
         /\ Len(sent[c]) = cycles[c].rx + 1
         /\ Len(sent[c]) = nput[c] + 1 - (cycles[c].drain + cycles[c].pad)

\* a session ended with two messages after three decode cycles
C16_Witness ==
  \E c \in Conns :
    /\ pc[c] = "sent_final"
    /\ nput[c] = 3
    /\ cycles[c].rx = 1
    /\ Len(sent[c]) = 2

\* C17: a plain HTTP request is answered 200 when the path was found and 404
\* otherwise, and changes neither the connection counter nor the queue nor
\* any stream nor any handler, whatever the connection count.
C17_Frame ==
  UNCHANGED <<current_active_connections, stream_queue, batch, streamVars,
              nput, taken, fired, connVars>>

C17_Step ==
  /\ \A found \in BOOLEAN :
       ProcessRequestHttp(found) =>
         /\ response' = (IF found THEN "200" ELSE "404")
         /\ C17_Frame
  /\ (response' # response /\ response' \in {"200", "404"}) => C17_Frame

C17_HttpRequest == [][C17_Step]_vars

\* a missing document was answered while the cap is reached
C17_Witness ==
  /\ response = "404"
  /\ current_active_connections = max_active_connections

RECURSIVE WarmupCycles(_)
WarmupCycles(len) ==
  IF DecodeReady(len) THEN 1 + WarmupCycles(ProcessedFeatures(len)) ELSE 0

\* C18 as claimed: the server serves only after a warm-up of exactly one
\* decode cycle.
C18_OneWarmupCycle ==
  /\ serverPc # "serving" => \A c \in Conns : pc[c] = "idle"
  /\ serverPc = "serving" => nput[WarmupStream] = 1

\* C18 as amended: until the warm-up has completed no process_request runs
\* and no connection is accepted; the warm-up issues one decode cycle through
\* the scheduler for every chunk of its audio, until its stream holds no more
\* than chunk_length_pad frames, and each cycle has completed before the
\* server serves.
C18_Startup ==
  /\ serverPc # "serving" =>
       /\ current_active_connections = 0
       /\ response = "unset"
       /\ \A c \in Conns : pc[c] = "idle" /\ nput[c] = 0
  /\ serverPc = "warmup" =>
       /\ nput[WarmupStream] >= 1
       /\ nput[WarmupStream] <= WarmupCycles(WarmupFrames)
  /\ serverPc = "serving" =>
       /\ nput[WarmupStream] = WarmupCycles(WarmupFrames)
       /\ fired[WarmupStream] = 1
       /\ ~Outstanding(WarmupStream)
       /\ ~DecodeReady(features[WarmupStream])
       /\ frame_offset[WarmupStream] =
            nput[WarmupStream] * (chunk_length \div subsampling_factor)

\* a connection was accepted after a warm-up of two decode cycles
C18_Witness ==
  /\ serverPc = "serving"
  /\ nput[WarmupStream] = 2
  /\ current_active_connections = 1

\* C19: the scheduler goes to sleep only when it found the queue empty; while
\* it sleeps no request leaves the queue and no batch is formed, whatever
\* arrives; the sleep ends only by its timer, after which the queue is
\* checked again.
C19_Step ==
  /\ (schedPc # "sleep" /\ schedPc' = "sleep") =>
       (schedPc = "check" /\ stream_queue = <<>> /\ batch = <<>>)
  /\ schedPc = "sleep" =>
       /\ schedPc' \in {"sleep", "check"}
       /\ batch' = batch
       /\ Len(stream_queue') >= Len(stream_queue)
       /\ SubSeq(stream_queue', 1, Len(stream_queue)) = stream_queue
       /\ schedPc' = "check" => stream_queue' = stream_queue
  /\ batch' # batch => schedPc \in {"check", "executed"}

C19_IdlePolling == [][C19_Step]_vars

\* two requests arrived while the scheduler sleeps
C19_Witness ==
  /\ schedPc = "sleep"
  /\ Len(stream_queue) = 2

\* C20: a batch is formed in one step from a queue of n >= 1 requests: it is
\* the first min(n, max_batch_size) requests in queue order, and the other
\* requests stay queued in their order, so no request is batched before one
\* that was enqueued earlier.
C20_Step ==
  /\ schedPc = "check" => schedPc' \in {"check", "sleep", "executor"}
  /\ (schedPc = "check" /\ schedPc' = "executor") =>
       LET n == Len(stream_queue)
           k == IF n < max_batch_size THEN n ELSE max_batch_size
       IN /\ n >= 1
          /\ batch' = SubSeq(stream_queue, 1, k)
          /\ stream_queue' = SubSeq(stream_queue, k + 1, n)
          /\ stream_queue = batch' \o stream_queue'

C21_Outcome(c, r) ==
  IF r > chunk_length_pad
  THEN /\ pc'[c] = "await_drain"
       /\ features'[c] = r
       /\ nput'[c] = nput[c] + 1
       /\ cycles'[c] = [cycles[c] EXCEPT !.drain = @ + 1]
  ELSE IF r > 0
  THEN /\ pc'[c] = "await_pad"
       /\ features'[c] = r + (chunk_length_pad - r)
       /\ features'[c] = chunk_length_pad
       /\ nput'[c] = nput[c] + 1
       /\ cycles'[c] = [cycles[c] EXCEPT !.pad = @ + 1]
  ELSE /\ pc'[c] = "sent_final"
       /\ features'[c] = 0
       /\ nput'[c] = nput[c]
       /\ cycles'[c] = cycles[c]

\* C21: after "Done" the handler issues a decode cycle while more than
\* chunk_length_pad frames are buffered; with 0 < r <= chunk_length_pad frames
\* left it pads to exactly chunk_length_pad frames, issues one more cycle and
\* clears the buffer; with no frame left it issues no cycle and pads nothing;
\* a session has at most one padded cycle.
C21_Step ==
  \A c \in Conns :
    /\ \A flush \in FlushFrames :
         RecvDone(c, flush) => C21_Outcome(c, features[c] + flush)
    /\ (ResumeDrain(c) /\ open[c]) => C21_Outcome(c, features[c])
    /\ (ResumeDrain(c) /\ ~open[c]) =>
         (features[c] > 0 /\ C21_Outcome(c, features[c]))
    /\ (ResumePad(c) /\ open[c]) =>
         /\ pc'[c] = "sent_final"
         /\ features'[c] = 0
         /\ nput'[c] = nput[c]

C21_PadOnce ==
  \A c \in Conns :
    /\ cycles[c].pad <= 1
    /\ cycles[c].pad = 1 => pc[c] \in {"await_pad", "sent_final"}
    /\ pc[c] = "await_pad" =>
         /\ cycles[c].pad = 1
         /\ features[c] = IF InSeq(stream_queue, c)
                             \/ (InSeq(batch, c) /\ schedPc \in {"executor", "dead"})
                          THEN chunk_length_pad
                          ELSE chunk_length_pad - chunk_length

C21_Draining == [][C21_PadOnce' /\ C21_Step]_vars

\* the padded cycle of a session is queued after a drain cycle
C21_Witness ==
  \E c \in Conns :
    /\ pc[c] = "await_pad"
    /\ cycles[c].drain = 1
    /\ cycles[c].rx = 0
    /\ InSeq(stream_queue, c)
    /\ features[c] = chunk_length_pad

\* decode cycles of stream s the executor has carried out
Processed(s) ==
  IF nput[s] = 0 THEN 0
  ELSE IF InSeq(stream_queue, s)
          \/ (InSeq(batch, s) /\ schedPc \in {"executor", "dead"})
       THEN nput[s] - 1
       ELSE nput[s]

\* C22: one batch at a time: while the scheduler is at its queue test or
\* asleep no batch is in flight and every request that was batched has had
\* its future set; a batch is formed only then; the inference call runs once
\* for a batch, between its forming and its notification, so every stream has
\* advanced by one chunk for each of its cycles.
C22_NoBatchInFlight ==
  schedPc \in {"notstarted", "check", "sleep"} =>
    /\ batch = <<>>
    /\ \A s \in Streams : nput[s] > 0 => taken[s] = fired[s]

C22_OncePerBatch ==
  \A s \in Streams :
    frame_offset[s] = Processed(s) * (chunk_length \div subsampling_factor)

C22_Step ==
  /\ batch' # batch =>
       \/ schedPc = "check" /\ batch = <<>> /\ schedPc' = "executor"
       \/ schedPc = "executed" /\ batch' = <<>> /\ schedPc' = "check"
  /\ schedPc = "executor" => schedPc' \in {"executor", "executed", "dead"}
  /\ schedPc = "executed" => schedPc' \in {"executed", "check"}
  /\ (schedPc = "executor" /\ schedPc' = "executed") =>
       \A s \in Streams :
         decoded'[s] = decoded[s] + (IF InSeq(batch, s) THEN 1 ELSE 0)

C22_OneBatchAtATime ==
  [][C22_NoBatchInFlight' /\ C22_OncePerBatch' /\ C22_Step]_vars

\* a batch has returned from the executor and is not yet notified while
\* another session's request waits in the queue
C22_Witness ==
  /\ schedPc = "executed"
  /\ Len(batch) = 1
  /\ Len(stream_queue) = 1
  /\ StreamOf(batch[1]) # StreamOf(stream_queue[1])

\* requests of stream s in the queue and in the batch
OutstandingCount(s) ==
  Cardinality({i \in 1..Len(stream_queue) : StreamOf(stream_queue[i]) = s})
    + Cardinality({i \in 1..Len(batch) : StreamOf(batch[i]) = s})

\* C23: a stream has at most one request in the queue and the batch together,
\* so no batch holds a stream twice; once the server serves, the requests in
\* the queue and the batch are no more than current_active_connections, which
\* is no more than max_active_connections.
C23_OneOutstanding ==
  /\ \A s \in Streams : OutstandingCount(s) <= 1
  /\ \A i, j \in 1..Len(batch) :
       StreamOf(batch[i]) = StreamOf(batch[j]) => i = j
  /\ serverPc = "serving" =>
       /\ Len(stream_queue) + Len(batch) <= current_active_connections
       /\ current_active_connections <= max_active_connections
       /\ ~Outstanding(WarmupStream)
  /\ serverPc # "serving" => Len(stream_queue) + Len(batch) <= 1

\* every admitted connection has a request outstanding, one of them batched
C23_Witness ==
  /\ serverPc = "serving"
  /\ current_active_connections = max_active_connections
  /\ Len(stream_queue) + Len(batch) = max_active_connections
  /\ Len(batch) = 1
  /\ schedPc = "executor"

\* C24: a message of the receiving loop carries the segment index read before
\* endpoint detection ran; the message after one with final = TRUE carries a
\* greater index (the next one), the message after one with final = FALSE the
\* same index, the last message of the connection included.
C24_Sequence ==
  \A c \in Conns : \A i \in 1..Len(sent[c]) :
    /\ i = 1 => sent[c][i].segment = 0
    /\ i > 1 =>
         /\ sent[c][i - 1].final => sent[c][i].segment > sent[c][i - 1].segment
         /\ sent[c][i - 1].final => sent[c][i].segment = sent[c][i - 1].segment + 1
         /\ ~sent[c][i - 1].final => sent[c][i].segment = sent[c][i - 1].segment

C24_Step ==
  \A c \in Conns :
    /\ \A f \in BOOLEAN :
         (ResumeRx(c, f) /\ open[c]) =>
           /\ LastSent(c)'.segment = segment[c]
           /\ f => segment'[c] = LastSent(c)'.segment + 1
    /\ (pc[c] # "sent_final" /\ pc'[c] = "sent_final") =>
         LastSent(c)'.segment = segment[c]

C24_SegmentOfMessages == [][C24_Sequence' /\ C24_Step]_vars

\* a session ended with three messages: an endpoint closed segment 0, the next
\* message and the last one belong to segment 1
C24_Witness ==
  \E c \in Conns :
    /\ pc[c] = "sent_final"
    /\ Len(sent[c]) = 3
    /\ sent[c][1].final /\ sent[c][1].segment = 0
    /\ ~sent[c][2].final /\ sent[c][2].segment = 1
    /\ sent[c][3].segment = 1

====
